---- MODULE Spec2Model ----
(***************************************************************************)
(* Loom: durable, event-sourced workflow engine.                           *)
(*                                                                         *)
(* The store is the three tables workflows / events / tasks               *)
(* (loom/database/db.py).  Workers run run_once (loom/core/runner.py):     *)
(* claim_task, then the dispatch on the task's kind.  A STEP tick replays  *)
(* the workflow's steps against its history (loom/core/engine.py,          *)
(* loom/core/context.py, loom/core/state.py).  Clients create workflows,   *)
(* send signals and cancel.                                                *)
(*                                                                         *)
(* Timestamps that are written but never read (started_at, sent_at,        *)
(* failed_at, updated_at, ...) are left out of rows and payloads.          *)
(***************************************************************************)
EXTENDS Integers, Sequences, FiniteSets, TLC

\* ------------------------------------------------------------------ bounds

MaxWorkflows == 1      \* workflows a client may start
NumWorkers == 2        \* concurrent run_once drivers
MaxNow == 6            \* the clock stops here
MaxEvents == 8         \* rows of the events table
MaxTasks == 6          \* rows of the tasks table
MaxSignals == 1        \* SIGNAL_RECEIVED events a client may append
MaxCancels == 1        \* effective cancel_workflow calls per workflow
MaxStepBacks == 2      \* times the wall clock is set back under one timer
MaxCrashes == 1        \* workers that stop for good in the middle of a task

\* -------------------------------------------------------- program constants

BackoffBase == 2       \* delay = min(60, 2 ** attempts)
BackoffCap == 60
DefaultRetryCount == 0         \* activity(retry_count: int = 0, ...)
DefaultTimeoutSeconds == 60    \* activity(..., timeout_seconds: int = 60)
MaxRetryCount == 100           \* if retry_count > 100: raise
MaxTimeoutSeconds == 3600      \* if timeout_seconds > 3600: raise

Workers == 1..NumWorkers

Min(a, b) == IF a <= b THEN a ELSE b

RECURSIVE Pow(_, _)
Pow(b, n) == IF n = 0 THEN 1 ELSE b * Pow(b, n - 1)

\* ------------------------------------------------- user code (the registry)

\* A step body is a sequence of context calls.  "result" as a value means the
\* value returned by the preceding activity / wait_until_signal call.
Activity(fn, args) == [op |-> "activity", fn |-> fn, args |-> args]
Sleep(delta) == [op |-> "sleep", delta |-> delta]
WaitSignal(name) == [op |-> "wait_until_signal", name |-> name]
SetConst(key, value) == [op |-> "set", key |-> key, src |-> "const", value |-> value]
SetResult(key) == [op |-> "set", key |-> key, src |-> "result", value |-> ""]
Update(key, value) == [op |-> "update", key |-> key, value |-> value]
Batch(ops) == [op |-> "batch", ops |-> ops]     \* async with ctx.state.batch(): ops
Fail == [op |-> "raise"]                        \* raise ValueError(...)

\* @loom.activity(name=..., retry_count=..., timeout_seconds=...)
ActivityNames == {"format_greeting", "reserve", "charge"}

ActivityDefs ==
    [a \in ActivityNames |->
        IF a = "format_greeting"
        THEN [name |-> a, retry_count |-> 3, timeout_seconds |-> 10, result |-> "Hello, World!"]
        ELSE IF a = "charge"
        THEN [name |-> a, retry_count |-> 8, timeout_seconds |-> 60, result |-> "charged"]
        ELSE [name |-> a, retry_count |-> 0, timeout_seconds |-> 60, result |-> "reserved"]]

WorkflowNames == {"Hello", "Order", "Timer", "Signal", "Poll", "Counter", "Pair"}

\* a workflow whose activity is retried often enough to reach the back-off cap
RetryNames == {"Flaky"}

\* workflow_registry(module, name)()._discover_workflow_steps()
workflow_registry(name) ==
    CASE name = "Hello" ->
            << [name |-> "create_greeting",
                ops |-> << Activity("format_greeting", <<"World">>), SetResult("greeting") >>] >>
      [] name = "Order" ->
            << [name |-> "prepare",
                ops |-> << SetConst("stage", "started"), Activity("reserve", <<"item">>) >>] >>
      [] name = "Timer" ->
            << [name |-> "wait", ops |-> << Sleep(2), SetConst("done", "true") >>] >>
      [] name = "Signal" ->
            << [name |-> "await_go", ops |-> << WaitSignal("go"), SetResult("received") >>] >>
      [] name = "Poll" ->
            << [name |-> "mark", ops |-> << SetConst("ready", "true") >>],
               [name |-> "await_go", ops |-> << WaitSignal("go") >>] >>
      [] name = "Counter" ->
            << [name |-> "count", ops |-> << Update("count", "1") >>] >>
      [] name = "Flaky" ->
            << [name |-> "pay", ops |-> << Activity("charge", <<"card">>) >>] >>
      [] name = "Batch" ->
            << [name |-> "fill",
                ops |-> << Batch(<< SetConst("a", "1"), SetConst("b", "2") >>) >>] >>
      [] name = "BatchUpdate" ->
            << [name |-> "fill",
                ops |-> << SetConst("s", "0"),
                           Batch(<< SetConst("a", "1"), Update("b", "2") >>) >>] >>
      [] name = "BatchFail" ->
            << [name |-> "fill", ops |-> << Batch(<< SetConst("a", "1"), Fail >>) >>] >>
      [] name = "BatchNested" ->
            << [name |-> "fill", ops |-> << Batch(<< Batch(<< SetConst("a", "1") >>) >>) >>] >>
      [] name = "Nap" ->
            << [name |-> "nap", ops |-> << Sleep(1), Sleep(2) >>] >>
      [] name = "Pair" ->
            << [name |-> "reserve_both",
                ops |-> << Activity("reserve", <<"item">>), Activity("reserve", <<"gift">>) >>] >>

SignalNames == {"go", "halt"}
SignalPayloads == {"{n: 7}"}

\* ------------------------------------------------------------------ store

VARIABLES
    call,        \* a call of a function that touches no store: its input and its outcome
    shutdown,    \* WorkflowWorker._shutdown_event is set
    drivers,     \* per worker: "running", "exited", "cancelled" or "crashed"
    code,        \* the user code the workers have loaded: "original" or "changed"
    workflows,   \* table workflows: row i has id i
    events,      \* table events, in id order
    tasks,       \* table tasks: row i has id i; rows are in created_at order
    now,         \* the clock (seconds)
    held,        \* per worker: the Task row claim_task returned, or NoTask
    invoked      \* every call of an activity function: <<task id, args>>

vars == << call, shutdown, drivers, code, workflows, events, tasks, now, held, invoked >>

NoTask == [id |-> 0]

TerminalStatuses == {"COMPLETED", "FAILED", "CANCELED"}

Store == [workflows |-> workflows, events |-> events, tasks |-> tasks]

\* get_workflow_events: SELECT type, payload WHERE workflow_id = ? ORDER BY id
get_workflow_events(D, wf) ==
    LET rows == SelectSeq(D.events, LAMBDA e : e.workflow_id = wf)
    IN [i \in 1..Len(rows) |-> [type |-> rows[i].type, payload |-> rows[i].payload]]

\* INSERT INTO events (workflow_id, type, payload)
create_event(D, wf, type, payload) ==
    [D EXCEPT !.events = Append(@, [workflow_id |-> wf, type |-> type, payload |-> payload])]

StepTask(wf, name, at) ==
    [workflow_id |-> wf, kind |-> "STEP", target |-> name, run_at |-> at,
     status |-> "PENDING", attempts |-> 0, max_attempts |-> 0, last_error |-> ""]

recreate_workflow_task(D, wf, at) ==
    [D EXCEPT !.tasks = Append(@, StepTask(wf, D.workflows[wf].name, at))]

\* create_workflow, first execute(): INSERT INTO workflows, committed
insert_workflow(D, name, input) ==
    [D EXCEPT !.workflows = Append(@, [name |-> name, status |-> "RUNNING", input |-> input])]

\* create_workflow, second execute(): INSERT INTO events, committed
insert_workflow_started(D, wf) ==
    create_event(D, wf, "WORKFLOW_STARTED", [input |-> D.workflows[wf].input])

\* create_workflow, third execute(): INSERT INTO tasks, committed
insert_first_step(D, wf, at) ==
    [D EXCEPT !.tasks = Append(@, StepTask(wf, D.workflows[wf].name, at))]

\* the three statements of create_workflow, run to the end
create_workflow(D, name, input, at) ==
    LET wf == Len(D.workflows) + 1
        D1 == insert_workflow(D, name, input)
        D2 == insert_workflow_started(D1, wf)
    IN insert_first_step(D2, wf, at)

\* UPDATE tasks SET <assignments> WHERE <the row is one of rows>
UpdateTasks(D, rows, assignments) ==
    [D EXCEPT !.tasks = [i \in 1..Len(@) |-> IF i \in rows THEN assignments @@ @[i] ELSE @[i]]]

\* the ids of the tasks of workflow wf whose kind and status are among those given
TasksOf(D, wf, kinds, statuses) ==
    {i \in 1..Len(D.tasks) :
        D.tasks[i].workflow_id = wf /\ D.tasks[i].kind \in kinds /\ D.tasks[i].status \in statuses}

TaskKinds == {"STEP", "ACTIVITY", "TIMER"}

\* the task with this id, if its status is among those given
TaskIn(D, id, statuses) == {i \in 1..Len(D.tasks) : i = id /\ D.tasks[i].status \in statuses}

workflow_failed(D, wf, payload) ==
    IF D.workflows[wf].status \in TerminalStatuses
    THEN D
    ELSE LET D1 == create_event(D, wf, "WORKFLOW_FAILED", payload)
             D2 == [D1 EXCEPT !.workflows[wf].status = "FAILED"]
         IN UpdateTasks(D2, TasksOf(D2, wf, TaskKinds, {"PENDING"}),
                        [status |-> "FAILED", last_error |-> "workflow failed"])

complete_workflow(D, wf) ==
    IF D.workflows[wf].status \in TerminalStatuses
    THEN D
    ELSE LET D1 == create_event(D, wf, "WORKFLOW_COMPLETED", [completed |-> TRUE])
             D2 == [D1 EXCEPT !.workflows[wf].status = "COMPLETED"]
         IN UpdateTasks(D2, TasksOf(D2, wf, {"STEP"}, {"RUNNING"}), [status |-> "COMPLETED"])

cancel_workflow(D, wf, reason) ==
    IF D.workflows[wf].status \in TerminalStatuses
    THEN D
    ELSE LET D1 == create_event(D, wf, "WORKFLOW_CANCELLED", [reason |-> reason])
             D2 == [D1 EXCEPT !.workflows[wf].status = "CANCELLED"]
         IN UpdateTasks(D2, TasksOf(D2, wf, TaskKinds, {"PENDING"}),
                        [status |-> "FAILED", last_error |-> "workflow cancelled"])

\* the row exists and its status is RUNNING
CanSignal(D, wf) == wf \in 1..Len(D.workflows) /\ D.workflows[wf].status = "RUNNING"

\* create_signal_event without the two checks before the INSERT
create_signal_event_unchecked(D, wf, name, payload) ==
    [raises |-> "none",
     store |-> create_event(D, wf, "SIGNAL_RECEIVED", [name |-> name, payload |-> payload])]

\* raises WorkflowNotFoundError when there is no row and RuntimeError unless the
\* row's status is RUNNING; otherwise appends SIGNAL_RECEIVED{name, payload, sent_at}
create_signal_event(D, wf, name, payload) ==
    IF wf \notin 1..Len(D.workflows)
    THEN [raises |-> "WorkflowNotFoundError", store |-> D]
    ELSE IF ~CanSignal(D, wf)
    THEN [raises |-> "RuntimeError", store |-> D]
    ELSE [raises |-> "none",
          store |-> create_event(D, wf, "SIGNAL_RECEIVED", [name |-> name, payload |-> payload])]

task_completed(D, id) ==
    UpdateTasks(D, TaskIn(D, id, {"RUNNING"}), [status |-> "COMPLETED"])

task_failed(D, id, error) ==
    UpdateTasks(D, TaskIn(D, id, {"RUNNING"}), [status |-> "FAILED", last_error |-> error])

schedule_retry(D, id, run_at, error) ==
    UpdateTasks(D, {id}, [status |-> "PENDING", run_at |-> run_at, last_error |-> error])

\* a release that gives the task up instead of re-queueing it
release_task_dropped(D, id) ==
    UpdateTasks(D, TaskIn(D, id, {"RUNNING"}), [status |-> "FAILED"])

release_task(D, id) ==
    UpdateTasks(D, TaskIn(D, id, {"RUNNING"}), [status |-> "PENDING"])

\* the subquery of claim_task: the PENDING row with run_at <= now that is first
\* by (run_at, created_at); 0 when there is none
ClaimCandidate(D, at) ==
    LET ready == {i \in 1..Len(D.tasks) :
                    D.tasks[i].status = "PENDING" /\ D.tasks[i].run_at <= at}
    IN IF ready = {} THEN 0
       ELSE CHOOSE i \in ready :
              \A j \in ready :
                 \/ D.tasks[i].run_at < D.tasks[j].run_at
                 \/ (D.tasks[i].run_at = D.tasks[j].run_at /\ i <= j)

\* a claim that reads the candidate and counts the attempt but does not mark
\* the row RUNNING
claim_task_select_only(D, at) ==
    LET id == ClaimCandidate(D, at)
    IN IF id = 0 THEN D
       ELSE UpdateTasks(D, {id}, [attempts |-> D.tasks[id].attempts + 1])

\* UPDATE tasks SET status = 'RUNNING', attempts = attempts + 1 WHERE id = (...)
claim_task(D, at) ==
    LET id == ClaimCandidate(D, at)
    IN IF id = 0 THEN D
       ELSE UpdateTasks(D, {id}, [status |-> "RUNNING", attempts |-> D.tasks[id].attempts + 1])

\* a create_activity that inserts the task without the ACTIVITY_SCHEDULED event
create_activity_task_only(D, wf, metadata, at) ==
    [D EXCEPT !.tasks = Append(@,
          [workflow_id |-> wf, kind |-> "ACTIVITY", target |-> metadata.name, run_at |-> at,
           status |-> "PENDING", attempts |-> 0, max_attempts |-> metadata.retry_count,
           last_error |-> ""])]

create_activity(D, wf, metadata, at) ==
    LET D1 == create_event(D, wf, "ACTIVITY_SCHEDULED", metadata)
    IN [D1 EXCEPT !.tasks = Append(@,
          [workflow_id |-> wf, kind |-> "ACTIVITY", target |-> metadata.name, run_at |-> at,
           status |-> "PENDING", attempts |-> 0, max_attempts |-> metadata.retry_count,
           last_error |-> ""])]

\* SELECT ... WHERE type = 'ACTIVITY_SCHEDULED' AND payload.name = ?
\* ORDER BY id LIMIT 1 OFFSET attempts - 1; <<>> when there is no such row
get_activity_event(D, wf, activity_name, attempts) ==
    LET rows == SelectSeq(get_workflow_events(D, wf),
                          LAMBDA e : e.type = "ACTIVITY_SCHEDULED"
                                     /\ e.payload.name = activity_name)
    IN IF attempts <= Len(rows) THEN << rows[attempts] >> ELSE << >>

\* create_timer without its INSERT INTO tasks
create_timer_event_only(D, wf, fire_at) ==
    create_event(D, wf, "TIMER_SCHEDULED", [timer_id |-> Len(D.tasks) + 1, fire_at |-> fire_at])

create_timer(D, wf, fire_at) ==
    LET timer_id == Len(D.tasks) + 1
        D1 == create_event(D, wf, "TIMER_SCHEDULED", [timer_id |-> timer_id, fire_at |-> fire_at])
    IN [D1 EXCEPT !.tasks = Append(@,
          [workflow_id |-> wf, kind |-> "TIMER", target |-> "__timer__", run_at |-> fire_at,
           status |-> "PENDING", attempts |-> 0, max_attempts |-> 0, last_error |-> ""])]

\* a rotation that retires the running driver and enqueues no successor
rotate_workflow_driver_retire_only(D, wf, at) ==
    UpdateTasks(D, TasksOf(D, wf, {"STEP"}, {"RUNNING"}), [status |-> "COMPLETED"])

rotate_workflow_driver(D, wf, at) ==
    LET D1 == UpdateTasks(D, TasksOf(D, wf, {"STEP"}, {"RUNNING"}), [status |-> "COMPLETED"])
    IN [D1 EXCEPT !.tasks = Append(@, StepTask(wf, D.workflows[wf].name, at))]

workflow_is_completed(D, wf) ==
    \E i \in 1..Len(D.events) :
        D.events[i].workflow_id = wf /\ D.events[i].type = "WORKFLOW_COMPLETED"

\* workflow._discover_workflow_steps(): the steps in source order; the changed
\* code has the steps of every workflow in the opposite order
discover_workflow_steps(name) ==
    LET steps == workflow_registry(name)
    IN IF code = "changed"
       THEN [k \in 1..Len(steps) |-> steps[Len(steps) + 1 - k]]
       ELSE steps

\* ------------------------------------------------- WorkflowContext (one tick)

\* The context of one replay: history is ctx.history (the rows loaded at the
\* start plus what _append_event added), db is the store as written so far,
\* outcome is "run" while user code runs, else the exception that ended it.
\* batching and batch are StateProxy._batch (None when batching is false);
\* flushed counts the events the exit of a batch appended and masked is the
\* outcome of the batch body that this exit replaced by StopReplay.
WorkflowContext(D, wf, at) ==
    LET history == get_workflow_events(D, wf)
    IN [id |-> wf, history |-> history, original_history_length |-> Len(history),
        cursor |-> 0, data |-> << >>, result |-> "", db |-> D, now |-> at,
        outcome |-> "run", error |-> "", inconsistent |-> FALSE,
        batching |-> FALSE, batch |-> << >>, flushed |-> 0, masked |-> "run"]

\* `await value` followed by the rest of the coroutine: value is computed once
\* and the rest runs on the result
Then(value, Rest(_)) == CHOOSE r \in {Rest(v) : v \in {value}} : TRUE

AtEnd(ctx) == ctx.cursor >= Len(ctx.history)

\* _peek: only used where AtEnd is false
Peek(ctx) == ctx.history[ctx.cursor + 1]

Consume(ctx) == [ctx EXCEPT !.cursor = @ + 1]

MatchEvent(ctx, expected_type) == ~AtEnd(ctx) /\ Peek(ctx).type = expected_type

RECURSIVE SkipStepEvents(_)
SkipStepEvents(ctx) ==
    IF ~AtEnd(ctx) /\ Peek(ctx).type \in {"STEP_START", "STEP_END"}
    THEN Then(Consume(ctx), LAMBDA c : SkipStepEvents(c))
    ELSE ctx

is_replaying(ctx) == ctx.cursor < ctx.original_history_length

last_emitted_event_type(ctx) == ctx.history[Len(ctx.history)].type

AppendEvent(ctx, type, payload) ==
    [ctx EXCEPT !.db = create_event(@, ctx.id, type, payload),
                !.history = Append(@, [type |-> type, payload |-> payload])]

Raise(ctx, exception, message) == [ctx EXCEPT !.outcome = exception, !.error = message]

StopReplay(ctx) == Raise(ctx, "StopReplay", "")

extract_activity_metadata(fn, args) ==
    [name |-> ActivityDefs[fn].name, retry_count |-> ActivityDefs[fn].retry_count,
     timeout_seconds |-> ActivityDefs[fn].timeout_seconds, func |-> fn, args |-> args]

\* WorkflowContext.activity
CtxActivity(ctx, fn, args) ==
    LET metadata == extract_activity_metadata(fn, args)
    IN Then(SkipStepEvents(ctx), LAMBDA c1 :
         IF MatchEvent(c1, "ACTIVITY_SCHEDULED")
         THEN IF Peek(c1).payload.name # metadata.name
              THEN Raise(c1, "NonDeterministicWorkflowError", "activity")
              ELSE Then(SkipStepEvents(Consume(c1)), LAMBDA c2 :
                     IF MatchEvent(c2, "ACTIVITY_COMPLETED")
                     THEN [Consume(c2) EXCEPT !.result = Peek(c2).payload.result]
                     ELSE StopReplay(c2))
         ELSE IF ~AtEnd(c1)
              THEN Raise(c1, "NonDeterministicWorkflowError", "activity")
              ELSE StopReplay([c1 EXCEPT !.db = create_activity(@, c1.id, metadata, c1.now)]))

\* WorkflowContext.sleep(delta=...)
CtxSleep(ctx, delta) ==
    Then(SkipStepEvents(ctx), LAMBDA c1 :
      LET fire_at == c1.now + delta
      IN IF MatchEvent(c1, "TIMER_SCHEDULED")
         THEN Then(SkipStepEvents(Consume(c1)), LAMBDA c2 :
                IF MatchEvent(c2, "TIMER_FIRED") THEN Consume(c2) ELSE StopReplay(c2))
         ELSE IF ~AtEnd(c1)
              THEN Raise(c1, "NonDeterministicWorkflowError", "sleep")
              ELSE StopReplay([c1 EXCEPT !.db = create_timer(@, c1.id, fire_at)]))

\* WorkflowContext.wait_until_signal: a consumed signal returns
\* event["payload"]["data"], a KeyError when the payload has no such key
CtxWaitUntilSignal(ctx, signal_name) ==
    Then(SkipStepEvents(ctx), LAMBDA c1 :
      IF MatchEvent(c1, "SIGNAL_RECEIVED")
      THEN IF Peek(c1).payload.name # signal_name
           THEN Raise(c1, "NonDeterministicWorkflowError", "signal")
           ELSE IF "data" \in DOMAIN Peek(c1).payload
                THEN [Consume(c1) EXCEPT !.result = Peek(c1).payload.data]
                ELSE Raise(Consume(c1), "KeyError", "data")
      ELSE IF ~AtEnd(c1)
           THEN Raise(c1, "NonDeterministicWorkflowError", "signal")
           ELSE StopReplay(c1))

\* StateProxy.set
StateSet(ctx, name, value) ==
    IF ~AtEnd(ctx) /\ Peek(ctx).type = "STATE_SET" /\ Peek(ctx).payload.key = name
    THEN [Consume(ctx) EXCEPT !.data = (name :> value) @@ @]
    ELSE IF ctx.batching
    THEN [ctx EXCEPT !.batch = Append(@, [type |-> "STATE_SET",
                                          payload |-> [key |-> name, value |-> value]])]
    ELSE StopReplay(AppendEvent(ctx, "STATE_SET", [key |-> name, value |-> value]))

\* StateProxy.get(name): self._data.get(name, None)
StateGet(ctx, name) == IF name \in DOMAIN ctx.data THEN ctx.data[name] ELSE "None"

\* StateProxy.update(key=lambda: value)
StateUpdate(ctx, name, value) ==
    IF ~AtEnd(ctx) /\ Peek(ctx).type = "STATE_UPDATE" /\ DOMAIN Peek(ctx).payload.values = {name}
    THEN [Consume(ctx) EXCEPT !.data = (name :> Peek(ctx).payload.values[name]) @@ @]
    ELSE IF ctx.batching
    THEN [ctx EXCEPT !.batch = Append(@, [type |-> "STATE_UPDATE",
                                          payload |-> [values |-> (name :> value)]])]
    ELSE StopReplay(AppendEvent(ctx, "STATE_UPDATE", [values |-> (name :> value)]))

RECURSIVE StepFn(_, _, _)

\* the for loop of the finally block of batch: _append_event for each
\* accumulated event, in order
RECURSIVE AppendBatch(_, _)
AppendBatch(ctx, k) ==
    IF k > Len(ctx.batch) THEN ctx
    ELSE Then(AppendEvent(ctx, ctx.batch[k].type, ctx.batch[k].payload),
              LAMBDA c : AppendBatch(c, k + 1))

\* the finally block of batch: body is the context when the body of the with
\* statement has returned or raised
BatchExit(body) ==
    IF body.batch # << >>
    THEN Then(AppendBatch(body, 1), LAMBDA c :
           StopReplay([c EXCEPT !.batching = FALSE, !.batch = << >>,
                                !.flushed = Len(body.batch), !.masked = body.outcome]))
    ELSE [body EXCEPT !.batching = FALSE]

\* async with ctx.state.batch(): ops
CtxBatch(ctx, ops) ==
    IF ctx.batching
    THEN Raise(ctx, "RuntimeError", "Nested batches are not supported.")
    ELSE Then(StepFn([ctx EXCEPT !.batching = TRUE, !.batch = << >>], ops, 1),
              LAMBDA body : BatchExit(body))

\* one call of the step body
Call(ctx, c) ==
    CASE c.op = "activity" -> CtxActivity(ctx, c.fn, c.args)
      [] c.op = "sleep" -> CtxSleep(ctx, c.delta)
      [] c.op = "wait_until_signal" -> CtxWaitUntilSignal(ctx, c.name)
      [] c.op = "set" -> StateSet(ctx, c.key, IF c.src = "result" THEN ctx.result ELSE c.value)
      [] c.op = "update" -> StateUpdate(ctx, c.key, c.value)
      [] c.op = "batch" -> CtxBatch(ctx, c.ops)
      [] c.op = "raise" -> Raise(ctx, "ValueError", "raised by the step")

\* The event at the cursor, past STEP_START / STEP_END, is not the decision
\* event that call c expects (history disagrees with the code).
Inconsistent(ctx, c) ==
    Then(SkipStepEvents(ctx), LAMBDA c1 :
      /\ ~AtEnd(c1)
      /\ LET e == Peek(c1)
         IN CASE c.op = "activity" ->
                    ~(e.type = "ACTIVITY_SCHEDULED" /\ e.payload.name = ActivityDefs[c.fn].name)
              [] c.op = "sleep" -> e.type # "TIMER_SCHEDULED"
              [] c.op = "wait_until_signal" ->
                    ~(e.type = "SIGNAL_RECEIVED" /\ e.payload.name = c.name)
              [] c.op = "set" -> ~(e.type = "STATE_SET" /\ e.payload.key = c.key)
              [] c.op = "update" ->
                    ~(e.type = "STATE_UPDATE" /\ DOMAIN e.payload.values = {c.key})
              [] OTHER -> FALSE)

\* the context at a call, marked when history disagrees with the call
Observe(ctx, c) ==
    IF Inconsistent(ctx, c) THEN [ctx EXCEPT !.inconsistent = TRUE] ELSE ctx

\* await step_fn(ctx): the calls in order until one raises
StepFn(ctx, ops, i) ==
    IF i > Len(ops) \/ ctx.outcome # "run"
    THEN ctx
    ELSE Then(Observe(ctx, ops[i]), LAMBDA seen :
           Then(Call(seen, ops[i]), LAMBDA c : StepFn(c, ops, i + 1)))

\* the body of the for loop of replay_until_block, for one step
RunStep(ctx, step) ==
    LET start ==
            IF MatchEvent(ctx, "STEP_START")
            THEN IF Peek(ctx).payload.step_name # step.name
                 THEN StopReplay(ctx)
                 ELSE Consume(ctx)
            ELSE IF ~is_replaying(ctx)
                 THEN AppendEvent(ctx, "STEP_START", [step_name |-> step.name, step_fn |-> step.name])
                 ELSE ctx
    IN Then(start, LAMBDA started :
         Then(IF started.outcome = "run" THEN StepFn(started, step.ops, 1) ELSE started,
              LAMBDA ran :
                IF ran.outcome # "run" THEN ran
                ELSE IF MatchEvent(ran, "STEP_END") THEN Consume(ran)
                ELSE IF ~is_replaying(ran)
                     THEN AppendEvent(ran, "STEP_END", [step_name |-> step.name])
                     ELSE ran))

RECURSIVE RunSteps(_, _, _)
RunSteps(ctx, steps, j) ==
    IF j > Len(steps) \/ ctx.outcome # "run"
    THEN ctx
    ELSE Then(RunStep(ctx, steps[j]), LAMBDA c : RunSteps(c, steps, j + 1))

\* the context when the steps of a tick have run or one of them has raised
tick_context(D, wf, at) ==
    Then(WorkflowContext(D, wf, at), LAMBDA ctx0 :
      Then(IF MatchEvent(ctx0, "WORKFLOW_STARTED") THEN Consume(ctx0) ELSE ctx0, LAMBDA ctx1 :
        RunSteps(ctx1, discover_workflow_steps(D.workflows[wf].name), 1)))

\* Engine.replay_until_block: the store after the tick
replay_until_block(D, wf, at) ==
    Then(tick_context(D, wf, at), LAMBDA ctx :
      CASE ctx.outcome = "StopReplay" ->
              IF last_emitted_event_type(ctx) \in {"STATE_SET", "STATE_UPDATE"}
              THEN rotate_workflow_driver(ctx.db, wf, at)
              ELSE ctx.db
        [] ctx.outcome = "run" -> complete_workflow(ctx.db, wf)
        [] OTHER -> workflow_failed(ctx.db, wf, [error |-> ctx.outcome]))

\* the back-off without its cap
retry_delay_uncapped(attempts) == Pow(BackoffBase, attempts)

\* delay = min(60, 2 ** task["attempts"])
retry_delay(attempts) == Min(BackoffCap, Pow(BackoffBase, attempts))

\* a replay_activity that gives up one failure later: only when attempts has
\* passed max_attempts
replay_activity_one_more(D, task, raises, at) ==
    LET wf == task.workflow_id
        event == get_activity_event(D, wf, task.target, task.attempts)
        called == event # << >>
        failed == ~called \/ raises
        error == IF called THEN "activity raised" ELSE "No event found for activity"
        done ==
            LET D1 == create_event(D, wf, "ACTIVITY_COMPLETED",
                        [name |-> task.target, result |-> ActivityDefs[event[1].payload.func].result])
            IN recreate_workflow_task(task_completed(D1, task.id), wf, at)
        gave_up ==
            create_event(task_failed(D, task.id, error), wf, "ACTIVITY_FAILED",
                         [name |-> task.target, error |-> error])
    IN [db |-> IF ~failed THEN done
               ELSE IF task.attempts > task.max_attempts THEN gave_up
               ELSE schedule_retry(D, task.id, at + retry_delay(task.attempts), error),
        called |-> called,
        args |-> IF called THEN event[1].payload.args ELSE << >>]

\* Engine.replay_activity: raises is whether the activity function raises when
\* it is called.  Returns the store and whether the function was called.
replay_activity(D, task, raises, at) ==
    LET wf == task.workflow_id
        event == get_activity_event(D, wf, task.target, task.attempts)
        called == event # << >>
        failed == ~called \/ raises
        error == IF called THEN "activity raised" ELSE "No event found for activity"
        done ==
            LET D1 == create_event(D, wf, "ACTIVITY_COMPLETED",
                        [name |-> task.target, result |-> ActivityDefs[event[1].payload.func].result])
            IN recreate_workflow_task(task_completed(D1, task.id), wf, at)
        gave_up ==
            create_event(task_failed(D, task.id, error), wf, "ACTIVITY_FAILED",
                         [name |-> task.target, error |-> error])
        delay == retry_delay(task.attempts)
    IN [db |-> IF ~failed THEN done
               ELSE IF task.attempts >= task.max_attempts THEN gave_up
               ELSE schedule_retry(D, task.id, at + delay, error),
        called |-> called,
        args |-> IF called THEN event[1].payload.args ELSE << >>]

\* run_once from its first statement to its return, with nothing in between:
\* the store it leaves and what it ran ("none" when no task was claimed, "skip"
\* when the workflow has WORKFLOW_COMPLETED, else the kind of the task)
run_once(D, at, raises) ==
    LET id == ClaimCandidate(D, at)
        D1 == claim_task(D, at)
        task == [id |-> id, workflow_id |-> D1.tasks[id].workflow_id, kind |-> D1.tasks[id].kind,
                 target |-> D1.tasks[id].target, run_at |-> D1.tasks[id].run_at,
                 attempts |-> D1.tasks[id].attempts, max_attempts |-> D1.tasks[id].max_attempts]
    IN IF id = 0 THEN [db |-> D, ran |-> "none"]
       ELSE IF workflow_is_completed(D1, task.workflow_id)
       THEN [db |-> task_completed(D1, id), ran |-> "skip"]
       ELSE CASE task.kind = "STEP" ->
                    [db |-> task_completed(replay_until_block(D1, task.workflow_id, at), id),
                     ran |-> "STEP"]
              [] task.kind = "ACTIVITY" ->
                    [db |-> task_completed(replay_activity(D1, task, raises, at).db, id),
                     ran |-> "ACTIVITY"]
              [] task.kind = "TIMER" ->
                    [db |-> IF at < task.run_at
                            THEN release_task(D1, id)
                            ELSE task_completed(
                                    rotate_workflow_driver(
                                        create_event(D1, task.workflow_id, "TIMER_FIRED", << >>),
                                        task.workflow_id, at),
                                    id),
                     ran |-> "TIMER"]

\* WorkflowHandle._replay_state: the fold of the state events, in log order,
\* over an empty dict; a STATE_UPDATE does state_dict.update(payload)
RECURSIVE replay_state(_, _)
replay_state(log, n) ==
    IF n = 0 THEN << >>
    ELSE LET state_dict == replay_state(log, n - 1)
             event == log[n]
         IN CASE event.type = "STATE_SET" ->
                    (event.payload.key :> event.payload.value) @@ state_dict
              [] event.type = "STATE_UPDATE" -> event.payload @@ state_dict
              [] OTHER -> state_dict

\* WorkflowHandle.result: the exception it raises ("none" when it returns) and
\* the state it returns
result(D, wf) ==
    LET status == D.workflows[wf].status
        state == replay_state(get_workflow_events(D, wf), Len(get_workflow_events(D, wf)))
    IN IF status = "RUNNING" THEN [raises |-> "WorkflowStillRunningError", state |-> << >>]
       ELSE IF status = "FAILED" THEN [raises |-> "WorkflowExecutionError", state |-> << >>]
       ELSE IF status = "CANCELED" THEN [raises |-> "WorkerCancelledError", state |-> << >>]
       ELSE [raises |-> "none", state |-> state]

\* -------------------------------------------------- workflow compilation

MaxMethods == 2        \* attributes in the body of a workflow class

\* attribute names, as their characters
AttrNames == {<<"a">>, <<"b">>, <<"_", "c">>}

NoStep == "-"

\* an attribute of the class body: step is the _step_name the @step decorator
\* attached (NoStep for an undecorated method), params the number of
\* parameters besides the receiver
Methods == [attr : AttrNames, step : {NoStep, "x", "y"}, params : 0..2]

\* class bodies: cls.__dict__ keeps the attributes in source order, one per name
ClassBodies ==
    {body \in UNION {[1..n -> Methods] : n \in 0..MaxMethods} :
        \A i, j \in 1..Len(body) : body[i].attr = body[j].attr => i = j}

\* attr_name.startswith("_")
startswith_underscore(attr_name) == Len(attr_name) >= 1 /\ attr_name[1] = "_"

\* Workflow._discover_workflow_steps
discover_steps(body) ==
    LET found == SelectSeq(body, LAMBDA m : ~startswith_underscore(m.attr) /\ m.step # NoStep)
    IN [i \in 1..Len(found) |-> [name |-> found[i].step, fn |-> found[i].attr]]

\* Workflow._validate_workflow: the error it raises, "none" when it returns
validate_workflow(body, steps) ==
    IF steps = << >> THEN "ValueError: must have at least one step"
    ELSE IF \E i, j \in 1..Len(steps) : i < j /\ steps[i].name = steps[j].name
    THEN "ValueError: Duplicate step name"
    ELSE IF \E i \in 1..Len(steps) : \E k \in 1..Len(body) :
               body[k].attr = steps[i].fn /\ body[k].params # 1
    THEN "ValueError: must have signature (self, ctx)"
    ELSE "none"

\* Workflow._compile_instance
compile(body) ==
    LET steps == discover_steps(body)
        error == validate_workflow(body, steps)
    IN [raises |-> error, steps |-> IF error = "none" THEN steps ELSE << >>]

\* --------------------------------------------------- activity declaration

MaxProbe == 1          \* the integers tried lie this close to a limit or a default

\* a Python value passed for retry_count or timeout_seconds; Omitted is the
\* argument left out
IntValue(n) == [type |-> "int", value |-> n]

Omitted == [type |-> "omitted", value |-> 0]

Probes(n) == {IntValue(n + d) : d \in -MaxProbe..MaxProbe}

NonIntegers == {[type |-> "float", value |-> 1], [type |-> "str", value |-> 3]}

RetryArgs ==
    {Omitted} \cup NonIntegers \cup Probes(DefaultRetryCount) \cup Probes(MaxRetryCount)

TimeoutArgs ==
    {Omitted} \cup NonIntegers \cup Probes(0) \cup Probes(DefaultTimeoutSeconds)
        \cup Probes(MaxTimeoutSeconds)

\* the decorator without its two upper limits
activity_unlimited(retry_arg, timeout_arg) ==
    LET retry_count == IF retry_arg = Omitted THEN IntValue(DefaultRetryCount) ELSE retry_arg
        timeout_seconds ==
            IF timeout_arg = Omitted THEN IntValue(DefaultTimeoutSeconds) ELSE timeout_arg
    IN IF retry_count.type # "int" \/ retry_count.value < 0
       THEN [raises |-> "ValueError: retry_count must be a non-negative integer"]
       ELSE IF timeout_seconds.type # "int" \/ timeout_seconds.value <= 0
       THEN [raises |-> "ValueError: timeout_seconds must be a positive integer"]
       ELSE [raises |-> "none", _activity_retry_count |-> retry_count.value,
             _activity_timeout_seconds |-> timeout_seconds.value]

\* @activity(retry_count=..., timeout_seconds=...): the error it raises, or the
\* metadata it attaches to the function
activity(retry_arg, timeout_arg) ==
    LET retry_count == IF retry_arg = Omitted THEN IntValue(DefaultRetryCount) ELSE retry_arg
        timeout_seconds ==
            IF timeout_arg = Omitted THEN IntValue(DefaultTimeoutSeconds) ELSE timeout_arg
    IN IF retry_count.type # "int" \/ retry_count.value < 0
       THEN [raises |-> "ValueError: retry_count must be a non-negative integer"]
       ELSE IF timeout_seconds.type # "int" \/ timeout_seconds.value <= 0
       THEN [raises |-> "ValueError: timeout_seconds must be a positive integer"]
       ELSE IF retry_count.value > MaxRetryCount
       THEN [raises |-> "ValueError: retry_count seems excessive"]
       ELSE IF timeout_seconds.value > MaxTimeoutSeconds
       THEN [raises |-> "ValueError: timeout_seconds seems excessive"]
       ELSE [raises |-> "none", _activity_retry_count |-> retry_count.value,
             _activity_timeout_seconds |-> timeout_seconds.value]

\* ---------------------------------------------------------------- actions

NoCall == [fn |-> "none"]

\* the pool and the store before any client call
InitStore ==
    /\ shutdown = FALSE
    /\ drivers = [w \in Workers |-> "running"]
    /\ code = "original"
    /\ workflows = << >>
    /\ events = << >>
    /\ tasks = << >>
    /\ now = 0
    /\ held = [w \in Workers |-> NoTask]
    /\ invoked = {}

Init == call = NoCall /\ InitStore

\* the store after an operation, kept within the tables' bounds
Commit(D) ==
    /\ Len(D.events) <= MaxEvents
    /\ Len(D.tasks) <= MaxTasks
    /\ workflows' = D.workflows
    /\ events' = D.events
    /\ tasks' = D.tasks

CountEvents(wf, type) ==
    Cardinality({i \in 1..Len(events) : events[i].workflow_id = wf /\ events[i].type = type})

\* CompiledWorkflow.start(input); the client starts one workflow at a time,
\* the next one when the previous one has ended and the queue is idle
StartWorkflow(name) ==
    /\ Len(workflows) < MaxWorkflows
    /\ \A wf \in 1..Len(workflows) : workflows[wf].status # "RUNNING"
    /\ \A i \in 1..Len(tasks) : tasks[i].status \notin {"PENDING", "RUNNING"}
    /\ Commit(create_workflow(Store, name, "World", now))
    /\ UNCHANGED << call, shutdown, drivers, code, now, held, invoked >>

\* WorkflowHandle.signal(name, payload); a call that raises changes nothing
Signal(wf, name, payload) ==
    /\ CountEvents(wf, "SIGNAL_RECEIVED") < MaxSignals
    /\ \E r \in {create_signal_event(Store, wf, name, payload)} :
          /\ r.raises = "none"
          /\ Commit(r.store)
    /\ UNCHANGED << call, shutdown, drivers, code, now, held, invoked >>

\* Database.cancel_workflow(workflow_id)
Cancel(wf) ==
    /\ wf \in 1..Len(workflows)
    /\ CountEvents(wf, "WORKFLOW_CANCELLED") < MaxCancels
    /\ Commit(cancel_workflow(Store, wf, "Cancelled"))
    /\ UNCHANGED << call, shutdown, drivers, code, now, held, invoked >>

\* the workers are stopped between two tasks and started again with user code
\* whose step order was swapped, while a workflow of several steps is in flight
Deploy ==
    /\ code = "original"
    /\ \A w \in Workers : held[w] = NoTask
    /\ \E wf \in 1..Len(workflows) :
          workflows[wf].status = "RUNNING" /\ Len(workflow_registry(workflows[wf].name)) > 1
    /\ code' = "changed"
    /\ UNCHANGED << call, shutdown, drivers, workflows, events, tasks, now, held, invoked >>

\* time passes while some task waits for its run_at
Tick ==
    /\ now < MaxNow
    /\ \E i \in 1..Len(tasks) : tasks[i].status = "PENDING" /\ tasks[i].run_at > now
    /\ now' = now + 1
    /\ UNCHANGED << call, shutdown, drivers, code, workflows, events, tasks, held, invoked >>

\* run_once, first statement: task = await db.claim_task().  Idle workers are
\* interchangeable: of the idle ones, the lowest-numbered is taken to poll first.
Claim(w) ==
    /\ drivers[w] = "running"
    /\ ~shutdown
    /\ held[w] = NoTask
    /\ \A v \in Workers : v < w => (held[v] # NoTask \/ drivers[v] # "running")
    /\ LET id == ClaimCandidate(Store, now)
           D == claim_task(Store, now)
       IN /\ id # 0
          /\ Commit(D)
          /\ held' = [held EXCEPT ![w] =
                [id |-> id, workflow_id |-> D.tasks[id].workflow_id, kind |-> D.tasks[id].kind,
                 target |-> D.tasks[id].target, run_at |-> D.tasks[id].run_at,
                 attempts |-> D.tasks[id].attempts, max_attempts |-> D.tasks[id].max_attempts]]
    /\ UNCHANGED << call, shutdown, drivers, code, now, invoked >>

Holds(w, kind) ==
    /\ drivers[w] = "running"
    /\ held[w] # NoTask
    /\ held[w].kind = kind
    /\ ~workflow_is_completed(Store, held[w].workflow_id)

\* run_once: the workflow already has WORKFLOW_COMPLETED
SkipCompleted(w) ==
    /\ drivers[w] = "running"
    /\ held[w] # NoTask
    /\ workflow_is_completed(Store, held[w].workflow_id)
    /\ Commit(task_completed(Store, held[w].id))
    /\ held' = [held EXCEPT ![w] = NoTask]
    /\ UNCHANGED << call, shutdown, drivers, code, now, invoked >>

\* run_once, kind STEP
RunStepTask(w) ==
    /\ Holds(w, "STEP")
    /\ \E D \in {replay_until_block(Store, held[w].workflow_id, now)} :
          Commit(task_completed(D, held[w].id))
    /\ held' = [held EXCEPT ![w] = NoTask]
    /\ UNCHANGED << call, shutdown, drivers, code, now, invoked >>

\* run_once, kind ACTIVITY
RunActivityTask(w, raises) ==
    /\ Holds(w, "ACTIVITY")
    /\ \E r \in {replay_activity(Store, held[w], raises, now)} :
          /\ Commit(task_completed(r.db, held[w].id))
          /\ invoked' = IF r.called
                        THEN invoked \cup {[task |-> held[w].id, attempt |-> held[w].attempts,
                                            args |-> r.args]}
                        ELSE invoked
    /\ held' = [held EXCEPT ![w] = NoTask]
    /\ UNCHANGED << call, shutdown, drivers, code, now >>

\* run_once, kind TIMER
RunTimerTask(w) ==
    /\ Holds(w, "TIMER")
    /\ IF now < held[w].run_at
       THEN Commit(release_task(Store, held[w].id))
       ELSE Commit(task_completed(
                rotate_workflow_driver(
                    create_event(Store, held[w].workflow_id, "TIMER_FIRED", << >>),
                    held[w].workflow_id, now),
                held[w].id))
    /\ held' = [held EXCEPT ![w] = NoTask]
    /\ UNCHANGED << call, shutdown, drivers, code, now, invoked >>

Next ==
    \/ \E name \in WorkflowNames : StartWorkflow(name)
    \/ \E wf \in 1..MaxWorkflows, name \in SignalNames, payload \in SignalPayloads :
          Signal(wf, name, payload)
    \/ \E wf \in 1..MaxWorkflows : Cancel(wf)
    \/ Deploy
    \/ Tick
    \/ \E w \in Workers : Claim(w)
    \/ \E w \in Workers : SkipCompleted(w)
    \/ \E w \in Workers : RunStepTask(w)
    \/ \E w \in Workers, raises \in BOOLEAN : RunActivityTask(w, raises)
    \/ \E w \in Workers : RunTimerTask(w)

Spec == Init /\ [][Next]_vars

\* time passes, second by second, while a retry waits for its run_at
Elapse ==
    /\ \E i \in 1..Len(tasks) : tasks[i].status = "PENDING" /\ tasks[i].run_at > now
    /\ now' = now + 1
    /\ UNCHANGED << call, shutdown, drivers, code, workflows, events, tasks, held, invoked >>

\* the workers and the clock around one workflow whose activity keeps failing
BackoffNext ==
    \/ \E name \in RetryNames : StartWorkflow(name)
    \/ Elapse
    \/ \E w \in Workers : Claim(w)
    \/ \E w \in Workers : RunStepTask(w)
    \/ \E w \in Workers, raises \in BOOLEAN : RunActivityTask(w, raises)

BackoffSpec == Init /\ [][BackoffNext]_vars

\* run_once of one worker: the claim, then the dispatch on what it claimed
RunOnce(w) ==
    \/ Claim(w)
    \/ SkipCompleted(w)
    \/ RunStepTask(w)
    \/ \E raises \in BOOLEAN : RunActivityTask(w, raises)
    \/ RunTimerTask(w)

\* every worker keeps calling run_once and the clock keeps running
FairSpec ==
    /\ Spec
    /\ WF_vars(Tick)
    /\ \A w \in Workers : WF_vars(RunOnce(w))

\* the workflows of the end-to-end scenarios: an activity then state.set, a
\* sleep then state.set, a wait for a signal then state.set
ScenarioNames == {"Hello", "Timer", "Signal"}

\* fair workers and the clock around the workflows a client starts and may
\* signal; nobody cancels a workflow and the code is not redeployed
ScenarioNext ==
    \/ \E name \in ScenarioNames : StartWorkflow(name)
    \/ \E wf \in 1..MaxWorkflows, name \in SignalNames, payload \in SignalPayloads :
          Signal(wf, name, payload)
    \/ Tick
    \/ \E w \in Workers : Claim(w)
    \/ \E w \in Workers : RunStepTask(w)
    \/ \E w \in Workers, raises \in BOOLEAN : RunActivityTask(w, raises)
    \/ \E w \in Workers : RunTimerTask(w)

ScenarioSpec ==
    /\ Init /\ [][ScenarioNext]_vars
    /\ WF_vars(Tick)
    /\ \A w \in Workers : WF_vars(RunOnce(w))

\* worker w stops for good between claim_task and the end of the task it holds
Crash(w) ==
    /\ drivers[w] = "running"
    /\ held[w] # NoTask
    /\ Cardinality({v \in Workers : drivers[v] = "crashed"}) < MaxCrashes
    /\ drivers' = [drivers EXCEPT ![w] = "crashed"]
    /\ UNCHANGED << call, shutdown, code, workflows, events, tasks, now, held, invoked >>

\* fair workers, of which some crash, around the scenario workflows
CrashNext ==
    \/ \E name \in ScenarioNames : StartWorkflow(name)
    \/ \E wf \in 1..MaxWorkflows, name \in SignalNames, payload \in SignalPayloads :
          Signal(wf, name, payload)
    \/ Tick
    \/ \E w \in Workers : Crash(w)
    \/ \E w \in Workers : Claim(w)
    \/ \E w \in Workers : RunStepTask(w)
    \/ \E w \in Workers, raises \in BOOLEAN : RunActivityTask(w, raises)
    \/ \E w \in Workers : RunTimerTask(w)

CrashSpec ==
    /\ Init /\ [][CrashNext]_vars
    /\ WF_vars(Tick)
    /\ \A w \in Workers : WF_vars(RunOnce(w))

\* signal_handler (SIGINT, SIGTERM): self._shutdown_event.set()
SetShutdown ==
    /\ ~shutdown
    /\ shutdown' = TRUE
    /\ UNCHANGED << call, drivers, code, workflows, events, tasks, now, held, invoked >>

\* _worker_loop: while not self._shutdown_event.is_set() - a driver that comes
\* back from run_once with the flag set leaves its loop
Exit(w) ==
    /\ shutdown
    /\ drivers[w] = "running"
    /\ held[w] = NoTask
    /\ drivers' = [drivers EXCEPT ![w] = "exited"]
    /\ UNCHANGED << call, shutdown, code, workflows, events, tasks, now, held, invoked >>

\* _graceful_shutdown: start() wakes up from _shutdown_event.wait() and calls
\* task.cancel() on every driver, then waits for them up to shutdown_timeout.
\* CancelledError is raised in a driver at the await it is suspended in; neither
\* run_once nor the engine catches it (they catch Exception), so a driver that
\* holds a task leaves it as it is.
GracefulShutdown ==
    /\ shutdown
    /\ \E w \in Workers : drivers[w] = "running"
    /\ drivers' = [w \in Workers |-> IF drivers[w] = "running" THEN "cancelled" ELSE drivers[w]]
    /\ UNCHANGED << call, shutdown, code, workflows, events, tasks, now, held, invoked >>

\* the workers around the scenario workflows, and a shutdown signal
ShutdownNext ==
    \/ \E name \in ScenarioNames : StartWorkflow(name)
    \/ \E wf \in 1..MaxWorkflows, name \in SignalNames, payload \in SignalPayloads :
          Signal(wf, name, payload)
    \/ Tick
    \/ SetShutdown
    \/ GracefulShutdown
    \/ \E w \in Workers : Exit(w)
    \/ \E w \in Workers : Claim(w)
    \/ \E w \in Workers : RunStepTask(w)
    \/ \E w \in Workers, raises \in BOOLEAN : RunActivityTask(w, raises)
    \/ \E w \in Workers : RunTimerTask(w)

ShutdownSpec == Init /\ [][ShutdownNext]_vars

\* create_workflow statement by statement: each execute() opens its own
\* connection and commits, so the store is visible after each of them, and a
\* client that stops in the middle never takes the next step
InsertWorkflow(name) ==
    /\ Len(workflows) < MaxWorkflows
    /\ \A wf \in 1..Len(workflows) : workflows[wf].status # "RUNNING"
    /\ \A i \in 1..Len(tasks) : tasks[i].status \notin {"PENDING", "RUNNING"}
    /\ Commit(insert_workflow(Store, name, "World"))
    /\ UNCHANGED << call, shutdown, drivers, code, now, held, invoked >>

InsertWorkflowStarted(wf) ==
    /\ wf = Len(workflows)
    /\ CountEvents(wf, "WORKFLOW_STARTED") = 0
    /\ Commit(insert_workflow_started(Store, wf))
    /\ UNCHANGED << call, shutdown, drivers, code, now, held, invoked >>

InsertFirstStep(wf) ==
    /\ wf = Len(workflows)
    /\ CountEvents(wf, "WORKFLOW_STARTED") = 1
    /\ \A i \in 1..Len(tasks) : tasks[i].workflow_id # wf
    /\ Commit(insert_first_step(Store, wf, now))
    /\ UNCHANGED << call, shutdown, drivers, code, now, held, invoked >>

\* the workers around a client whose create_workflow is seen statement by
\* statement
CreateNext ==
    \/ \E name \in ScenarioNames : InsertWorkflow(name)
    \/ \E wf \in 1..MaxWorkflows : InsertWorkflowStarted(wf)
    \/ \E wf \in 1..MaxWorkflows : InsertFirstStep(wf)
    \/ \E wf \in 1..MaxWorkflows, name \in SignalNames, payload \in SignalPayloads :
          Signal(wf, name, payload)
    \/ Tick
    \/ \E w \in Workers : Claim(w)
    \/ \E w \in Workers : RunStepTask(w)
    \/ \E w \in Workers, raises \in BOOLEAN : RunActivityTask(w, raises)
    \/ \E w \in Workers : RunTimerTask(w)

CreateSpec == Init /\ [][CreateNext]_vars

\* a workflow class is written and compiled
CompileInit ==
    /\ InitStore
    /\ call \in {[fn |-> "compile", input |-> body, done |-> FALSE, output |-> compile(<< >>)] :
                    body \in ClassBodies}

Compile ==
    /\ call.fn = "compile"
    /\ ~call.done
    /\ call' = [call EXCEPT !.done = TRUE, !.output = compile(call.input)]
    /\ UNCHANGED << shutdown, drivers, code, workflows, events, tasks, now, held, invoked >>

CompileSpec == CompileInit /\ [][Compile]_vars

\* the workflows that sleep
TimerNames == {"Timer", "Nap"}

\* datetime.now() is the wall clock: it is set back a second while a worker
\* holds a TIMER task it has claimed
StepBack ==
    /\ now > 0
    /\ \E w \in Workers :
          held[w] # NoTask /\ held[w].kind = "TIMER" /\ held[w].attempts <= MaxStepBacks
    /\ now' = now - 1
    /\ UNCHANGED << call, shutdown, drivers, code, workflows, events, tasks, held, invoked >>

\* the workers around a sleeping workflow that a client may cancel, under a wall
\* clock that may be set back
TimerNext ==
    \/ \E name \in TimerNames : StartWorkflow(name)
    \/ \E wf \in 1..MaxWorkflows : Cancel(wf)
    \/ Tick
    \/ StepBack
    \/ \E w \in Workers : Claim(w)
    \/ \E w \in Workers : RunStepTask(w)
    \/ \E w \in Workers : RunTimerTask(w)

TimerSpec == Init /\ [][TimerNext]_vars

\* the workflows whose step opens a state.batch() scope
BatchNames == {"Batch", "BatchUpdate", "BatchFail", "BatchNested"}

\* the workers around a workflow that batches its state changes and that a
\* client may signal or cancel
BatchNext ==
    \/ \E name \in BatchNames : StartWorkflow(name)
    \/ \E wf \in 1..MaxWorkflows, name \in SignalNames, payload \in SignalPayloads :
          Signal(wf, name, payload)
    \/ \E wf \in 1..MaxWorkflows : Cancel(wf)
    \/ \E w \in Workers : Claim(w)
    \/ \E w \in Workers : RunStepTask(w)

BatchSpec == Init /\ [][BatchNext]_vars

\* the tick of the STEP task that worker w holds ends in the exit of a batch
\* that has events to append
FlushesBatch(w) ==
    /\ Holds(w, "STEP")
    /\ tick_context(Store, held[w].workflow_id, now).flushed > 0

\* worker w is in the for loop of the finally block of batch
InFlush(w) == call.fn = "batch" /\ call.worker = w

\* run_once, kind STEP, up to the for loop of the finally block of batch:
\* what the tick appended before that loop is committed, the accumulated
\* events are still in memory
BeginFlush(w) ==
    /\ call = NoCall
    /\ FlushesBatch(w)
    /\ \E ctx \in {tick_context(Store, held[w].workflow_id, now)} :
          LET rows == ctx.db.events
              first == Len(rows) - ctx.flushed + 1
          IN /\ Commit([ctx.db EXCEPT !.events = SubSeq(rows, 1, first - 1)])
             /\ call' = [fn |-> "batch", worker |-> w, pending |-> SubSeq(rows, first, Len(rows))]
    /\ UNCHANGED << shutdown, drivers, code, now, held, invoked >>

\* one turn of the loop: _append_event opens a connection, inserts one event
\* and commits
FlushOne ==
    /\ call.fn = "batch"
    /\ call.pending # << >>
    /\ Len(events) < MaxEvents
    /\ events' = Append(events, Head(call.pending))
    /\ call' = [call EXCEPT !.pending = Tail(@)]
    /\ UNCHANGED << shutdown, drivers, code, workflows, tasks, now, held, invoked >>

\* after the loop: batch raises StopReplay, replay_until_block rotates the
\* driver (the last event is a state event) and run_once completes the task
EndFlush ==
    /\ call.fn = "batch"
    /\ call.pending = << >>
    /\ LET w == call.worker
       IN /\ Commit(task_completed(rotate_workflow_driver(Store, held[w].workflow_id, now),
                                   held[w].id))
          /\ held' = [held EXCEPT ![w] = NoTask]
    /\ call' = NoCall
    /\ UNCHANGED << shutdown, drivers, code, now, invoked >>

\* the batching workflows with the exit of a batch taken event by event
FlushNext ==
    \/ \E name \in BatchNames : StartWorkflow(name)
    \/ \E wf \in 1..MaxWorkflows, name \in SignalNames, payload \in SignalPayloads :
          Signal(wf, name, payload)
    \/ \E wf \in 1..MaxWorkflows : Cancel(wf)
    \/ \E w \in Workers : Claim(w)
    \/ \E w \in Workers : ~InFlush(w) /\ ~FlushesBatch(w) /\ RunStepTask(w)
    \/ \E w \in Workers : BeginFlush(w)
    \/ FlushOne
    \/ EndFlush

FlushSpec == Init /\ [][FlushNext]_vars

\* an activity is declared
DeclareInit ==
    /\ InitStore
    /\ call \in {[fn |-> "activity", retry_count |-> r, timeout_seconds |-> t, done |-> FALSE,
                    output |-> [raises |-> "none"]] : r \in RetryArgs, t \in TimeoutArgs}

Declare ==
    /\ call.fn = "activity"
    /\ ~call.done
    /\ call' = [call EXCEPT !.done = TRUE,
                            !.output = activity(call.retry_count, call.timeout_seconds)]
    /\ UNCHANGED << shutdown, drivers, code, workflows, events, tasks, now, held, invoked >>

DeclareSpec == DeclareInit /\ [][Declare]_vars

\* ----------------------------------------------------------------- claims

WorkflowIds == 1..Len(workflows)

TaskIds == 1..Len(tasks)

Log(wf) == get_workflow_events(Store, wf)

TerminalEvents == {"WORKFLOW_COMPLETED", "WORKFLOW_FAILED", "WORKFLOW_CANCELLED"}

\* the workflow has ended: its row no longer says RUNNING
Ended(wf) == wf \in WorkflowIds /\ workflows[wf].status # "RUNNING"

Drivers(wf) ==
    {i \in TaskIds : /\ tasks[i].workflow_id = wf
                     /\ tasks[i].kind = "STEP"
                     /\ tasks[i].status \in {"PENDING", "RUNNING"}}

\* C1: driver uniqueness - every workflow has at most one STEP task that is
\* PENDING or RUNNING.
C1_DriverUniqueness == \A wf \in WorkflowIds : Cardinality(Drivers(wf)) <= 1

\* C3: terminal finality of the log - a terminal event is the last event of
\* its workflow's log.
C3_TerminalEventIsLast ==
    \A wf \in WorkflowIds :
        \A i \in 1..Len(Log(wf)) : Log(wf)[i].type \in TerminalEvents => i = Len(Log(wf))

\* C4: terminal finality of the queue - a workflow that has ended has no
\* PENDING task, so claim_task cannot return one.
C4_NoPendingTaskAfterEnd ==
    \A wf \in WorkflowIds :
        Ended(wf) => \A i \in TaskIds : ~(tasks[i].workflow_id = wf /\ tasks[i].status = "PENDING")

\* C5: the status is monotone - a workflow that has ended keeps its status,
\* and its log has at most one terminal event.
C5_StatusMonotone ==
    /\ [][\A wf \in WorkflowIds : Ended(wf) => workflows'[wf].status = workflows[wf].status]_vars
    /\ [](\A wf \in WorkflowIds :
            Cardinality({i \in 1..Len(Log(wf)) : Log(wf)[i].type \in TerminalEvents}) <= 1)

HasEvent(wf, type) == \E i \in 1..Len(Log(wf)) : Log(wf)[i].type = type

\* The model's bounds, not the program, stop progress: the clock has stopped
\* under a waiting task, or a table has no room for what one operation writes.
Saturated ==
    \/ now = MaxNow /\ \E i \in TaskIds : tasks[i].status = "PENDING" /\ tasks[i].run_at > now
    \/ Len(events) + 3 > MaxEvents
    \/ Len(tasks) + 2 > MaxTasks

\* C2: liveness without crashes - with fair workers, every workflow whose steps
\* use activities, timers and state mutations eventually ends.
C2_EveryWorkflowEnds ==
    \A wf \in 1..MaxWorkflows :
        [](wf \in WorkflowIds /\ workflows[wf].name \in {"Hello", "Order", "Timer"}
             => <>(Ended(wf) \/ Saturated))

FinishedAttempts(i) ==
    IF tasks[i].status = "RUNNING" THEN tasks[i].attempts - 1 ELSE tasks[i].attempts

\* the args recorded in the ACTIVITY_SCHEDULED event of the call behind task i
\* (format_greeting is called once per workflow)
RecordedArgs(i) == get_activity_event(Store, tasks[i].workflow_id, tasks[i].target, 1)[1].payload.args

\* C7: retry then success - every attempt of an ACTIVITY task finds the one
\* ACTIVITY_SCHEDULED event of its call and invokes the function with the
\* recorded args, so a task is given up only after the function raised on each
\* of its attempts, and its call is scheduled exactly once.
C7_EveryAttemptInvokes ==
    \A i \in TaskIds :
        (tasks[i].kind = "ACTIVITY" /\ tasks[i].target = "format_greeting") =>
            /\ \A k \in 1..FinishedAttempts(i) :
                  [task |-> i, attempt |-> k, args |-> RecordedArgs(i)] \in invoked
            /\ Cardinality({j \in 1..Len(Log(tasks[i].workflow_id)) :
                    /\ Log(tasks[i].workflow_id)[j].type = "ACTIVITY_SCHEDULED"
                    /\ Log(tasks[i].workflow_id)[j].payload.name = tasks[i].target}) = 1

\* C8: retry exhausted fails the workflow - once ACTIVITY_FAILED is in the
\* log, the workflow's status eventually becomes FAILED.
C8_ExhaustedActivityFailsWorkflow ==
    \A wf \in 1..MaxWorkflows :
        [](wf \in WorkflowIds /\ HasEvent(wf, "ACTIVITY_FAILED")
             => <>((wf \in WorkflowIds /\ workflows[wf].status = "FAILED") \/ Saturated))

\* the workflow suspended in wait_until_signal("go") (its STEP_START is
\* logged) and the signal was appended afterwards
SignalledWhileWaiting(wf) ==
    /\ wf \in WorkflowIds
    /\ workflows[wf].name = "Signal"
    /\ \E i, j \in 1..Len(Log(wf)) :
          /\ i < j
          /\ Log(wf)[i].type = "STEP_START"
          /\ Log(wf)[j].type = "SIGNAL_RECEIVED"
          /\ Log(wf)[j].payload.name = "go"

\* C9: a signal unblocks its waiter - after the signal a tick eventually
\* consumes it and the workflow goes past the wait (it records the payload
\* or ends).
C9_SignalUnblocksWaiter ==
    \A wf \in 1..MaxWorkflows :
        [](SignalledWhileWaiting(wf)
             => <>(Ended(wf) \/ HasEvent(wf, "STATE_SET") \/ Saturated))

\* C10: signal payload round trip - consuming a matching signal never fails
\* the workflow, and the value wait_until_signal returned (recorded by the
\* Signal workflow under "received") is the payload that was sent.
C10_SignalPayloadRoundTrip ==
    \A wf \in WorkflowIds :
        \A i \in 1..Len(Log(wf)) :
            /\ ~(Log(wf)[i].type = "WORKFLOW_FAILED" /\ Log(wf)[i].payload.error = "KeyError")
            /\ (Log(wf)[i].type = "STATE_SET" /\ Log(wf)[i].payload.key = "received")
                  => \E j \in 1..(i - 1) :
                        /\ Log(wf)[j].type = "SIGNAL_RECEIVED"
                        /\ Log(wf)[j].payload.payload = Log(wf)[i].payload.value

\* worker w runs a STEP tick of workflow wf in this step
StepTick(w, wf) ==
    /\ held[w] # NoTask
    /\ held[w].kind = "STEP"
    /\ held[w].workflow_id = wf
    /\ ~workflow_is_completed(Store, wf)
    /\ held'[w] = NoTask

\* the first STEP_START of the log names another step than the first step of
\* the loaded code
StepOrderDiverged(wf) ==
    /\ Len(Log(wf)) >= 2
    /\ Log(wf)[2].type = "STEP_START"
    /\ Log(wf)[2].payload.step_name # discover_workflow_steps(workflows[wf].name)[1].name

\* C11: step-order divergence is surfaced - a tick that finds a STEP_START of
\* another step than the one about to run leaves the workflow FAILED with a
\* WORKFLOW_FAILED event.
C11_StepOrderDivergenceFails ==
    [][\A w \in Workers : \A wf \in WorkflowIds :
          (StepTick(w, wf) /\ workflows[wf].status = "RUNNING" /\ StepOrderDiverged(wf))
             => /\ workflows'[wf].status = "FAILED"
                /\ \E i \in 1..Len(events') :
                      events'[i].workflow_id = wf /\ events'[i].type = "WORKFLOW_FAILED"]_vars

\* C12: non-determinism is detected at every decision point - a tick in which
\* a call (activity, sleep, wait_until_signal, state.set, state.update) finds
\* an event inconsistent with it writes nothing but WORKFLOW_FAILED, creates
\* no task and leaves the workflow FAILED.
C12_InconsistentHistoryFails ==
    [][\A w \in Workers : \A wf \in WorkflowIds :
          (/\ StepTick(w, wf)
           /\ workflows[wf].status = "RUNNING"
           /\ tick_context(Store, wf, now).inconsistent)
             => /\ workflows'[wf].status = "FAILED"
                /\ Len(tasks') = Len(tasks)
                /\ Len(events') = Len(events) + 1
                /\ events'[Len(events')].type = "WORKFLOW_FAILED"]_vars

\* event e is the record of call c: its scheduling or state event
Records(e, c) ==
    CASE c.op = "activity" ->
            e.type = "ACTIVITY_SCHEDULED" /\ e.payload.name = ActivityDefs[c.fn].name
      [] c.op = "sleep" -> e.type = "TIMER_SCHEDULED"
      [] c.op = "set" -> e.type = "STATE_SET" /\ e.payload.key = c.key
      [] c.op = "update" -> e.type = "STATE_UPDATE" /\ DOMAIN e.payload.values = {c.key}
      [] OTHER -> FALSE

\* task t was created for call c
CreatedFor(t, c) ==
    CASE c.op = "activity" -> t.kind = "ACTIVITY" /\ t.target = ActivityDefs[c.fn].name
      [] c.op = "sleep" -> t.kind = "TIMER"
      [] OTHER -> FALSE

\* the calls in the code of workflow name that are recorded like call c (the
\* same kind of call with the same activity name or key)
CallsLike(name, c) ==
    LET steps == workflow_registry(name)
    IN {p \in {q \in (1..Len(steps)) \X (1..2) : q[2] <= Len(steps[q[1]].ops)} :
          LET d == steps[p[1]].ops[p[2]]
          IN /\ d.op = c.op
             /\ c.op = "activity" => ActivityDefs[d.fn].name = ActivityDefs[c.fn].name
             /\ c.op \in {"set", "update"} => d.key = c.key}

\* C13: replay idempotence - however often a workflow is replayed, each call of
\* its code is recorded once: there are no more scheduling or state events, and
\* no more ACTIVITY or TIMER tasks, of a call's kind and name than the code has
\* such calls.
C13_EachCallRecordedOnce ==
    \A wf \in WorkflowIds :
        LET steps == workflow_registry(workflows[wf].name)
            log == Log(wf)
        IN \A k \in 1..Len(steps) : \A n \in 1..Len(steps[k].ops) :
              LET c == steps[k].ops[n]
                  calls == Cardinality(CallsLike(workflows[wf].name, c))
              IN /\ Cardinality({i \in 1..Len(log) : Records(log[i], c)}) <= calls
                 /\ Cardinality({i \in TaskIds : tasks[i].workflow_id = wf
                                                  /\ CreatedFor(tasks[i], c)}) <= calls

\* the positions of the events table that hold an event of wf of this type about
\* the activity of this name
ActivityEvents(wf, type, name) ==
    {i \in 1..Len(events) :
        events[i].workflow_id = wf /\ events[i].type = type /\ events[i].payload.name = name}

\* C14: activity pairing - per workflow and activity name there are at most as
\* many ACTIVITY_COMPLETED as ACTIVITY_SCHEDULED events, and every
\* ACTIVITY_FAILED comes after an ACTIVITY_SCHEDULED of the same name.
C14_ActivityPairing ==
    \A i \in 1..Len(events) :
        LET wf == events[i].workflow_id
            name == events[i].payload.name
        IN /\ events[i].type = "ACTIVITY_COMPLETED" =>
                 Cardinality(ActivityEvents(wf, "ACTIVITY_COMPLETED", name))
                    <= Cardinality(ActivityEvents(wf, "ACTIVITY_SCHEDULED", name))
           /\ events[i].type = "ACTIVITY_FAILED" =>
                 \E j \in ActivityEvents(wf, "ACTIVITY_SCHEDULED", name) : j < i

\* C14 witness: an activity has completed and its event is in the log.
C14_ActivityCompleted ==
    \E wf \in WorkflowIds : \E name \in ActivityNames :
        ActivityEvents(wf, "ACTIVITY_COMPLETED", name) # {}

\* the number of the call behind ACTIVITY task i: it is the K-th ACTIVITY task
\* of its workflow with its target
CallNumber(i) ==
    Cardinality({j \in 1..i : /\ tasks[j].workflow_id = tasks[i].workflow_id
                              /\ tasks[j].kind = "ACTIVITY"
                              /\ tasks[j].target = tasks[i].target})

\* the args recorded in the K-th ACTIVITY_SCHEDULED event of this name
ScheduledArgs(wf, name, K) ==
    LET rows == SelectSeq(Log(wf), LAMBDA e : e.type = "ACTIVITY_SCHEDULED" /\ e.payload.name = name)
    IN rows[K].payload.args

\* C15: positional pairing of repeated activities - the task created for the
\* K-th call of an activity name runs the function with the args recorded in
\* the K-th ACTIVITY_SCHEDULED event of that name.
C15_KthTaskRunsKthArgs ==
    \A r \in invoked :
        r.args = ScheduledArgs(tasks[r.task].workflow_id, tasks[r.task].target, CallNumber(r.task))

StateEvents == {"STATE_SET", "STATE_UPDATE"}

\* C16: state determinism - when a replay of the log runs through the steps
\* and has consumed every state event of the log, the map it holds in memory
\* is the fold of the log's STATE_SET and STATE_UPDATE events that
\* Handle.result() builds.
C16_FoldEqualsReplayedState ==
    \A wf \in WorkflowIds :
        LET log == Log(wf)
            ctx == tick_context(Store, wf, now)
        IN (/\ ctx.outcome = "run"
            /\ \E i \in 1..Len(log) : log[i].type \in StateEvents
            /\ \A i \in 1..Len(log) : log[i].type \in StateEvents => i <= ctx.cursor)
              => replay_state(log, Len(log)) = ctx.data

\* C17: Handle.result() raises the still-running error while the workflow is
\* RUNNING, the workflow-execution error when it is FAILED, the cancellation
\* error when the workflow was cancelled (its status is none of RUNNING, FAILED,
\* COMPLETED), and returns the folded state only when it is COMPLETED.
C17_ResultFollowsStatus ==
    \A wf \in WorkflowIds :
        LET status == workflows[wf].status
            r == result(Store, wf)
        IN /\ status = "RUNNING" => r.raises = "WorkflowStillRunningError"
           /\ status = "FAILED" => r.raises = "WorkflowExecutionError"
           /\ status \notin {"RUNNING", "FAILED", "COMPLETED"} => r.raises = "WorkerCancelledError"
           /\ r.raises = "none" => status = "COMPLETED"

\* C18: cancel_workflow on a RUNNING workflow appends exactly one
\* WORKFLOW_CANCELLED event, sets the status to CANCELED, a status that the
\* terminal checks recognise, and leaves none of the workflow's tasks PENDING:
\* those that were PENDING are FAILED.
C18_CancelMarksCanceled ==
    [][\A wf \in WorkflowIds :
          (Cancel(wf) /\ workflows[wf].status = "RUNNING") =>
              /\ Len(events') = Len(events) + 1
              /\ events'[Len(events')].workflow_id = wf
              /\ events'[Len(events')].type = "WORKFLOW_CANCELLED"
              /\ workflows'[wf].status = "CANCELED"
              /\ workflows'[wf].status \in TerminalStatuses
              /\ \A i \in TaskIds :
                    (tasks[i].workflow_id = wf /\ tasks[i].status = "PENDING")
                        => tasks'[i].status = "FAILED"]_vars

\* C19: create_signal_event on a workflow that is not RUNNING raises an error
\* and appends no SIGNAL_RECEIVED event (the store is left as it was); on an
\* unknown id it raises workflow-not-found and appends nothing.
C19_SignalRefusedUnlessRunning ==
    \A wf \in 1..(Len(workflows) + 1), name \in SignalNames, payload \in SignalPayloads :
        LET r == create_signal_event(Store, wf, name, payload)
        IN /\ wf \notin WorkflowIds => (r.raises = "WorkflowNotFoundError" /\ r.store = Store)
           /\ (wf \in WorkflowIds /\ workflows[wf].status # "RUNNING")
                 => (r.raises # "none" /\ r.store = Store)

\* a signal sent to a workflow that has ended is refused
C19_SignalToEndedWorkflow ==
    \E wf \in WorkflowIds, name \in SignalNames, payload \in SignalPayloads :
        /\ workflows[wf].status \in {"COMPLETED", "FAILED"}
        /\ create_signal_event(Store, wf, name, payload).raises = "RuntimeError"

\* an ACTIVITY attempt of worker w that ends without ACTIVITY_COMPLETED
AttemptFails(w) ==
    /\ \E raises \in BOOLEAN : RunActivityTask(w, raises)
    /\ ~(Len(events') > Len(events) /\ events'[Len(events')].type = "ACTIVITY_COMPLETED")

\* C20: when an ACTIVITY attempt fails with attempts < max_attempts (attempts
\* counted after the claim), the task is PENDING again with
\* run_at = now + min(60, 2^attempts); that delay is at most 60 s and at least
\* the delay of the retry before it; and a task is never claimed before its
\* run_at.
C20_RetryBackoff ==
    [][\A w \in Workers :
          /\ (AttemptFails(w) /\ held[w].attempts < held[w].max_attempts) =>
                LET id == held[w].id
                    attempts == held[w].attempts
                    delay == tasks'[id].run_at - now
                IN /\ tasks'[id].status = "PENDING"
                   /\ delay = (IF 2 ^ attempts <= 60 THEN 2 ^ attempts ELSE 60)
                   /\ delay <= 60
                   /\ attempts > 1 =>
                         delay >= (IF 2 ^ (attempts - 1) <= 60 THEN 2 ^ (attempts - 1) ELSE 60)
          /\ Claim(w) => held'[w].run_at <= now]_vars

\* a task re-queued at the cap: its sixth attempt or a later one has failed
C20_RetryAtCap ==
    \E i \in TaskIds :
        /\ tasks[i].kind = "ACTIVITY"
        /\ tasks[i].status = "PENDING"
        /\ tasks[i].attempts >= 6
        /\ tasks[i].run_at = now + 60

\* the calls of the activity function made for task i
Invocations(i) == {r \in invoked : r.task = i}

\* ACTIVITY task i was given up: its retries are exhausted
GivenUp(i) ==
    /\ tasks[i].kind = "ACTIVITY"
    /\ tasks[i].status = "FAILED"
    /\ tasks[i].last_error # "workflow cancelled"

\* C21: retry_count is the number of retries - an activity declared with
\* retry_count = N that is given up has been attempted N + 1 times (once plus N
\* retries), and its function was invoked N + 1 times; with retry_count = 0 it
\* is attempted and invoked once.
C21_RetryCountIsRetries ==
    \A i \in TaskIds :
        GivenUp(i) =>
            LET N == ActivityDefs[tasks[i].target].retry_count
            IN /\ tasks[i].attempts = N + 1
               /\ Cardinality(Invocations(i)) = N + 1

\* the event types of the log of wf, in log order
LogTypes(wf) == [i \in 1..Len(Log(wf)) |-> Log(wf)[i].type]

\* a client has signalled or cancelled wf
Interfered(wf) == HasEvent(wf, "SIGNAL_RECEIVED") \/ HasEvent(wf, "WORKFLOW_CANCELLED")

\* wf is a Hello workflow whose activity succeeded at its first attempt
HelloFirstTry(wf) ==
    /\ wf \in WorkflowIds
    /\ workflows[wf].name = "Hello"
    /\ HasEvent(wf, "ACTIVITY_COMPLETED")
    /\ \A i \in TaskIds :
          (tasks[i].workflow_id = wf /\ tasks[i].kind = "ACTIVITY") => tasks[i].attempts = 1

HelloLog ==
    << "WORKFLOW_STARTED", "STEP_START", "ACTIVITY_SCHEDULED", "ACTIVITY_COMPLETED",
       "STATE_SET", "STEP_END", "WORKFLOW_COMPLETED" >>

\* C22: Hello scenario - with fair workers and the activity succeeding at its
\* first attempt, the workflow ends, it ends COMPLETED, and its log is then
\* exactly WORKFLOW_STARTED, STEP_START, ACTIVITY_SCHEDULED, ACTIVITY_COMPLETED,
\* STATE_SET, STEP_END, WORKFLOW_COMPLETED.
C22_HelloScenario ==
    \A wf \in 1..MaxWorkflows :
        /\ [](HelloFirstTry(wf) => <>(Ended(wf) \/ Interfered(wf) \/ Saturated))
        /\ []((HelloFirstTry(wf) /\ Ended(wf) /\ ~Interfered(wf)) =>
                (workflows[wf].status = "COMPLETED" /\ LogTypes(wf) = HelloLog))

\* a Hello workflow has run to its end without a retry
C22_HelloCompleted ==
    \E wf \in WorkflowIds :
        HelloFirstTry(wf) /\ workflows[wf].status = "COMPLETED" /\ ~Interfered(wf)

\* wf is a Timer workflow that has suspended in its sleep
TimerScheduled(wf) ==
    /\ wf \in WorkflowIds
    /\ workflows[wf].name = "Timer"
    /\ HasEvent(wf, "TIMER_SCHEDULED")

TimerLog ==
    << "WORKFLOW_STARTED", "STEP_START", "TIMER_SCHEDULED", "TIMER_FIRED",
       "STATE_SET", "STEP_END", "WORKFLOW_COMPLETED" >>

\* C23: Timer scenario - a workflow whose step sleeps and then calls state.set
\* stays RUNNING from TIMER_SCHEDULED until the timer fires; TIMER_FIRED is
\* logged only once the clock has reached fire_at; with fair workers the
\* workflow then ends, COMPLETED, with the log WORKFLOW_STARTED, STEP_START,
\* TIMER_SCHEDULED, TIMER_FIRED, STATE_SET, STEP_END, WORKFLOW_COMPLETED.
C23_TimerScenario ==
    \A wf \in 1..MaxWorkflows :
        /\ []((TimerScheduled(wf) /\ ~HasEvent(wf, "TIMER_FIRED") /\ ~Interfered(wf))
                => workflows[wf].status = "RUNNING")
        /\ []((TimerScheduled(wf) /\ HasEvent(wf, "TIMER_FIRED")) =>
                \A i \in 1..Len(Log(wf)) :
                    Log(wf)[i].type = "TIMER_SCHEDULED" => Log(wf)[i].payload.fire_at <= now)
        /\ [](TimerScheduled(wf) => <>(Ended(wf) \/ Interfered(wf) \/ Saturated))
        /\ []((TimerScheduled(wf) /\ Ended(wf) /\ ~Interfered(wf)) =>
                (workflows[wf].status = "COMPLETED" /\ LogTypes(wf) = TimerLog))

\* a Timer workflow has slept and run to its end
C23_TimerCompleted ==
    \E wf \in WorkflowIds :
        TimerScheduled(wf) /\ workflows[wf].status = "COMPLETED" /\ ~Interfered(wf)

\* worker w is between the claim of a STEP task of wf and the end of its tick
InTick(w, wf) ==
    /\ held[w] # NoTask
    /\ held[w].kind = "STEP"
    /\ held[w].workflow_id = wf

\* C24: a workflow is serial - no two workers are in a STEP tick
\* (replay_until_block) of the same workflow at the same time.
C24_TicksNeverOverlap ==
    \A wf \in WorkflowIds : \A w1, w2 \in Workers :
        (InTick(w1, wf) /\ InTick(w2, wf)) => w1 = w2

\* a worker has crashed in the middle of a task of wf
CrashedInTask(wf) ==
    \E w \in Workers :
        drivers[w] = "crashed" /\ held[w] # NoTask /\ held[w].workflow_id = wf

\* C25: crash recovery - when a worker stops for good after claim_task set a
\* task of a workflow RUNNING and before it finished the task, and the other
\* workers keep running, the workflow still eventually ends (stated for the
\* Timer workflow, which ends in every run without a crash).
C25_CrashRecovery ==
    \A wf \in 1..MaxWorkflows :
        []((wf \in WorkflowIds /\ workflows[wf].name = "Timer" /\ CrashedInTask(wf))
             => <>(Ended(wf) \/ Saturated))

\* C26: graceful shutdown - a driver that is in the middle of a task when the
\* shutdown flag is set finishes the task before it leaves its loop (no task
\* runs into the hard deadline here), so a driver that has left holds no task
\* that is still RUNNING, and when every driver has left no task is RUNNING.
C26_GracefulShutdown ==
    /\ \A w \in Workers :
          drivers[w] # "running" =>
              (held[w] = NoTask \/ tasks[held[w].id].status # "RUNNING")
    /\ (\A w \in Workers : drivers[w] # "running") =>
          \A i \in TaskIds : tasks[i].status # "RUNNING"

\* C27: create_workflow is atomic and complete - in every state, also one in
\* the middle of the call, a workflow row is RUNNING or ended, the first event
\* of its log is WORKFLOW_STARTED and it has a STEP task; before any worker has
\* claimed a task of it, that is exactly one PENDING STEP task, the one that
\* claim_task returns.
C27_CreateWorkflowAtomic ==
    \A wf \in WorkflowIds :
        LET mine == {i \in TaskIds : tasks[i].workflow_id = wf}
        IN /\ Len(Log(wf)) >= 1
           /\ Log(wf)[1].type = "WORKFLOW_STARTED"
           /\ mine # {}
           /\ (\A i \in mine : tasks[i].attempts = 0) =>
                  /\ Cardinality(mine) = 1
                  /\ \A i \in mine : tasks[i].kind = "STEP" /\ tasks[i].status \in {"PENDING", "FAILED"}
                  /\ (workflows[wf].status = "RUNNING" /\ ~HasEvent(wf, "WORKFLOW_CANCELLED"))
                        => \A i \in mine : ClaimCandidate(Store, now) = i

\* the tick behind ctx has called state.set at the end of history: it appended
\* a STATE_SET event and raised the suspend sentinel
SetAtEndOfHistory(ctx) ==
    /\ ctx.outcome = "StopReplay"
    /\ Len(ctx.history) > ctx.original_history_length
    /\ last_emitted_event_type(ctx) = "STATE_SET"

\* C28: state.set is visible to the caller - when a tick calls state.set(k, v)
\* at the end of history, the call raises the suspend sentinel and state.get(k)
\* on the same context then returns v.
C28_SetVisibleToCaller ==
    [][\A w \in Workers :
          RunStepTask(w) =>
              LET ctx == tick_context(Store, held[w].workflow_id, now)
                  set == ctx.history[Len(ctx.history)].payload
              IN SetAtEndOfHistory(ctx) => StateGet(ctx, set.key) = set.value]_vars

\* the steps a class body declares: its methods decorated with @step
DeclaredSteps(body) == SelectSeq(body, LAMBDA m : m.step # NoStep)

\* C29: compile() fails when the class declares no step, when two steps share
\* a step name, or when a step does not take exactly one argument besides its
\* receiver; otherwise it succeeds and lists the declared steps in source order.
C29_CompileValidates ==
    (call.fn = "compile" /\ call.done) =>
        LET declared == DeclaredSteps(call.input)
            malformed ==
                \/ declared = << >>
                \/ \E i, j \in 1..Len(declared) : i < j /\ declared[i].step = declared[j].step
                \/ \E i \in 1..Len(declared) : declared[i].params # 1
        IN /\ malformed <=> call.output.raises # "none"
           /\ ~malformed =>
                 call.output.steps =
                     [i \in 1..Len(declared) |-> [name |-> declared[i].step, fn |-> declared[i].attr]]

\* C30: the activity decorator accepts a declaration if and only if
\* retry_count is an integer in [0, 100] and timeout_seconds is an integer in
\* (0, 3600], an argument left out standing for its default, 0 and 60; a
\* rejected declaration raises and attaches nothing, an accepted one attaches
\* the values given.
C30_ActivityBounds ==
    (call.fn = "activity" /\ call.done) =>
        LET r == IF call.retry_count.type = "omitted" THEN [type |-> "int", value |-> 0]
                 ELSE call.retry_count
            t == IF call.timeout_seconds.type = "omitted" THEN [type |-> "int", value |-> 60]
                 ELSE call.timeout_seconds
            valid == /\ r.type = "int" /\ 0 <= r.value /\ r.value <= 100
                     /\ t.type = "int" /\ 0 < t.value /\ t.value <= 3600
        IN IF valid
           THEN call.output = [raises |-> "none", _activity_retry_count |-> r.value,
                               _activity_timeout_seconds |-> t.value]
           ELSE call.output.raises # "none" /\ DOMAIN call.output = {"raises"}

\* a declaration just above a limit was made and refused
C30_ExcessiveRefused ==
    /\ call.fn = "activity"
    /\ call.done
    /\ call.retry_count = [type |-> "int", value |-> 101]
    /\ call.timeout_seconds = [type |-> "int", value |-> 3600]
    /\ call.output.raises # "none"

\* the events the step of this state transition appended to the log of wf
AppendedBy(wf) ==
    SelectSeq(SubSeq(events', Len(events) + 1, Len(events')), LAMBDA e : e.workflow_id = wf)

\* the step of this state transition enqueued a STEP task of wf
EnqueuedStep(wf) ==
    \E i \in (Len(tasks) + 1)..Len(tasks') :
        tasks'[i].workflow_id = wf /\ tasks'[i].kind = "STEP"

\* C31: suspend handling rotates only for state events - a tick that suspends
\* enqueues a new STEP task if and only if the last event that tick appended
\* is STATE_SET or STATE_UPDATE; a tick that suspends after scheduling an
\* activity or a timer, or waiting for a completion or a signal, enqueues none,
\* whatever state events the history holds.
C31_RotateOnlyForStateEvents ==
    [][\A w \in Workers : \A wf \in WorkflowIds :
          (StepTick(w, wf) /\ tick_context(Store, wf, now).outcome = "StopReplay")
             => LET appended == AppendedBy(wf)
                IN EnqueuedStep(wf) <=>
                      (appended # << >> /\ appended[Len(appended)].type \in StateEvents)]_vars

\* the log of wf ends with the completion at k of a wait that began at i, and
\* a signal arrived in between
SignalInsideWait(wf, i, k) ==
    /\ k = Len(Log(wf))
    /\ \/ Log(wf)[i].type = "ACTIVITY_SCHEDULED" /\ Log(wf)[k].type = "ACTIVITY_COMPLETED"
       \/ Log(wf)[i].type = "TIMER_SCHEDULED" /\ Log(wf)[k].type = "TIMER_FIRED"
    /\ \E j \in (i + 1)..(k - 1) : Log(wf)[j].type = "SIGNAL_RECEIVED"
    /\ \A j \in (i + 1)..(k - 1) : Log(wf)[j].type = "SIGNAL_RECEIVED"

\* C32: signals may arrive at any time without blocking replay - when a
\* SIGNAL_RECEIVED event sits between ACTIVITY_SCHEDULED and
\* ACTIVITY_COMPLETED, or between TIMER_SCHEDULED and TIMER_FIRED, the tick
\* that follows the completion still consumes the completion.
C32_SignalDoesNotBlockReplay ==
    [][\A w \in Workers : \A wf \in WorkflowIds :
          (StepTick(w, wf) /\ workflows[wf].status = "RUNNING")
             => \A i \in 1..Len(Log(wf)), k \in 1..Len(Log(wf)) :
                   (i < k /\ SignalInsideWait(wf, i, k))
                      => tick_context(Store, wf, now).cursor >= k]_vars

\* worker w ends, in this step, an execution of the ACTIVITY task it holds
\* that did not complete: the function, or the lookup before it, raised
ActivityThrows(w) ==
    /\ held[w] # NoTask
    /\ held[w].kind = "ACTIVITY"
    /\ held'[w] = NoTask
    /\ ~workflow_is_completed(Store, held[w].workflow_id)
    /\ \A e \in {AppendedBy(held[w].workflow_id)[i] :
                    i \in 1..Len(AppendedBy(held[w].workflow_id))} :
          e.type # "ACTIVITY_COMPLETED"

TimerRun(w) ==
    /\ held[w] # NoTask
    /\ held[w].kind = "TIMER"
    /\ ~workflow_is_completed(Store, held[w].workflow_id)
    /\ held'[w] = NoTask

\* C34: timers never fire early - a TIMER task run while now < run_at goes
\* back to PENDING with its run_at unchanged and nothing is appended; a
\* TIMER_FIRED event is appended only by the run of a TIMER task at or after
\* its fire_at, after its TIMER_SCHEDULED, at most once per scheduled timer,
\* and together with a new PENDING STEP task.
C34_TimersNeverFireEarly ==
    [][/\ \A w \in Workers :
            TimerRun(w) =>
               LET t == held[w]
                   wf == t.workflow_id
               IN IF now < t.run_at
                  THEN /\ tasks'[t.id].status = "PENDING"
                       /\ tasks'[t.id].run_at = t.run_at
                       /\ events' = events
                       /\ Len(tasks') = Len(tasks)
                  ELSE /\ Len(AppendedBy(wf)) = 1
                       /\ AppendedBy(wf)[1].type = "TIMER_FIRED"
                       /\ \E i \in 1..Len(Log(wf)) :
                             /\ Log(wf)[i].type = "TIMER_SCHEDULED"
                             /\ Log(wf)[i].payload.timer_id = t.id
                             /\ Log(wf)[i].payload.fire_at <= now
                       /\ CountEvents(wf, "TIMER_FIRED") < CountEvents(wf, "TIMER_SCHEDULED")
                       /\ tasks'[t.id].status = "COMPLETED"
                       /\ \E i \in (Len(tasks) + 1)..Len(tasks') :
                             /\ tasks'[i].workflow_id = wf
                             /\ tasks'[i].kind = "STEP"
                             /\ tasks'[i].status = "PENDING"
       /\ \A i \in (Len(events) + 1)..Len(events') :
            events'[i].type = "TIMER_FIRED" =>
               \E w \in Workers :
                  /\ TimerRun(w)
                  /\ held[w].workflow_id = events'[i].workflow_id
                  /\ now >= held[w].run_at]_vars

\* a timer was released once because the clock read less than its run_at, and
\* fired at a later claim
C34_ReleasedThenFired ==
    \E i \in TaskIds :
        /\ tasks[i].kind = "TIMER"
        /\ tasks[i].status = "COMPLETED"
        /\ tasks[i].attempts >= 2
        /\ HasEvent(tasks[i].workflow_id, "TIMER_FIRED")

\* C35: terminal operations are no-ops on terminal workflows - workflow_failed,
\* complete_workflow and cancel_workflow, called on a workflow that is already
\* COMPLETED, FAILED or cancelled, append no event and leave the status and
\* every task as they are; each of them called twice leaves what one call leaves.
C35_TerminalOpsAreNoOps ==
    \A wf \in WorkflowIds :
        LET failure == [error |-> "again"]
        IN /\ workflows[wf].status # "RUNNING" =>
                 /\ workflow_failed(Store, wf, failure) = Store
                 /\ complete_workflow(Store, wf) = Store
                 /\ cancel_workflow(Store, wf, "Cancelled") = Store
           /\ workflow_failed(workflow_failed(Store, wf, failure), wf, failure)
                 = workflow_failed(Store, wf, failure)
           /\ complete_workflow(complete_workflow(Store, wf), wf) = complete_workflow(Store, wf)
           /\ cancel_workflow(cancel_workflow(Store, wf, "Cancelled"), wf, "Cancelled")
                 = cancel_workflow(Store, wf, "Cancelled")

\* C36: the worker skips terminal workflows - when run_once claims a task
\* whose workflow is already COMPLETED, FAILED or cancelled, it marks the task
\* COMPLETED, runs no step and no activity and appends no event.
C36_SkipsTerminalWorkflows ==
    LET id == ClaimCandidate(Store, now)
    IN (id # 0 /\ workflows[tasks[id].workflow_id].status # "RUNNING") =>
          \A raises \in BOOLEAN :
             LET r == run_once(Store, now, raises)
             IN /\ r.ran = "skip"
                /\ r.db.events = events
                /\ r.db.workflows = workflows
                /\ r.db.tasks = [tasks EXCEPT ![id].status = "COMPLETED",
                                              ![id].attempts = @ + 1]

\* the log of wf holds a state event that writes key
StateWritten(wf, key) ==
    \E i \in 1..Len(Log(wf)) :
        \/ Log(wf)[i].type = "STATE_SET" /\ Log(wf)[i].payload.key = key
        \/ Log(wf)[i].type = "STATE_UPDATE" /\ key \in DOMAIN Log(wf)[i].payload.values

\* C37: state batching - the events that the calls of one state.batch() scope
\* accumulate are appended together when the scope exits: a reader of the log
\* sees all of them or none of them.  (The scope writes key "a" and then key
\* "b" in the workflows Batch and BatchUpdate.)
C37_BatchAllOrNone ==
    \A wf \in WorkflowIds :
        workflows[wf].name \in {"Batch", "BatchUpdate"} =>
            (StateWritten(wf, "a") <=> StateWritten(wf, "b"))

\* the tick behind ctx left a state.batch() scope whose body had raised an
\* exception after state events were accumulated
BatchBodyRaised(ctx) ==
    /\ ctx.flushed > 0
    /\ ctx.masked \notin {"run", "StopReplay"}

\* C40: a failing batch body is not masked - when the body of a state.batch()
\* scope raises an exception after state events were accumulated, the tick
\* leaves the workflow FAILED and appends none of the accumulated events.
C40_BatchFailureNotMasked ==
    [][\A w \in Workers : \A wf \in WorkflowIds :
          (/\ StepTick(w, wf)
           /\ workflows[wf].status = "RUNNING"
           /\ BatchBodyRaised(tick_context(Store, wf, now)))
             => /\ workflows'[wf].status = "FAILED"
                /\ \A i \in 1..Len(AppendedBy(wf)) :
                      AppendedBy(wf)[i].type \notin StateEvents]_vars

\* the changes of status a task may go through
TaskTransitions ==
    {<< "PENDING", "RUNNING" >>, << "RUNNING", "COMPLETED" >>, << "RUNNING", "FAILED" >>,
     << "RUNNING", "PENDING" >>, << "PENDING", "FAILED" >>}

NeverWaitsForSignal(name) ==
    \A j \in 1..Len(workflow_registry(name)) :
        \A k \in 1..Len(workflow_registry(name)[j].ops) :
            workflow_registry(name)[j].ops[k].op # "wait_until_signal"

\* C39: no orphaned running workflow - in every state in which no task is
\* RUNNING, a workflow with status RUNNING that is not suspended in
\* wait_until_signal has at least one PENDING task.
C39_NoOrphanedWorkflow ==
    (\A i \in TaskIds : tasks[i].status # "RUNNING") =>
        \A wf \in WorkflowIds :
            (workflows[wf].status = "RUNNING" /\ NeverWaitsForSignal(workflows[wf].name))
               => \E i \in TaskIds : tasks[i].workflow_id = wf /\ tasks[i].status = "PENDING"

====
